---- MODULE Spec2Model ----
(***************************************************************************)
(* Model of tools/awg_ad9106.py: the AWG_AD9106 protocol session (write,   *)
(* read, sendOverWaitForOver, the write log), the command encoder          *)
(* convertNumbersToZCommands, and the top-level run _main.                 *)
(*                                                                         *)
(* Bytes are their integer codes; a bytes/bytearray/str value is a         *)
(* sequence of codes (commands are ASCII, for which str.encode('utf-8')    *)
(* and bytes.decode() keep every code).  time.sleep() changes no state and *)
(* is left out.  The transport is pyserial following the contract of the   *)
(* specification: write(bytes) returns, read(n) returns at most n bytes    *)
(* (fewer, possibly none, on timeout).                                     *)
(***************************************************************************)
EXTENDS Integers, Sequences, FiniteSets, TLC

VARIABLES
    ser,                \* self._ser is not None: a transport is connected
    printWriteLog,      \* self._printWriteLog
    generateWriteLog,   \* self._generateWriteLog
    writeLog,           \* self._writeLog, a bytearray
    needsFinalOver,     \* self._needsFinalOver
    params,             \* the load parameters (self._doesPrint, ...)
    wire,               \* what happened on the transport, in order
    console,            \* what was printed, in order
    written,            \* the lines handed to _writeHandler, in order
    call,               \* the last call: what was asked, the state before it
    ret,                \* what the last call returned
    raised,             \* the exception the last call raised, or NoError
    work,               \* the commands or arguments handed over so far (a call counts one at least)
    args,               \* _main: the parsed command line
    mpc,                \* _main: the position in _main
    mi,                 \* _main: the index in the list being executed
    outFile             \* _main: what was written to --out-file

vars == <<ser, printWriteLog, generateWriteLog, writeLog, needsFinalOver, params,
          wire, console, written, call, ret, raised, work, args, mpc, mi,
          outFile>>

----------------------------------------------------------------------------
(* Bounds of the model *)

\* commands handed to one session object, over all its calls
MaxWork == 3
\* entries of --pre-cmd and of --post-cmd on one command line
MaxCmds == 1
\* values beyond MAX_SRAM_SAMPLES in an encoder input
MaxExtra == 2
\* shortest encoder inputs: every length 0..MaxShort
MaxShort == 130
\* quantizer inputs: the 511ths up to MaxOff away from -1, 0 and 1, and the
\* halves up to MaxOff + 2
MaxOff == 3
\* arguments given to setLoadParameters, over all its calls on one session
MaxGiven == 3
\* rows of a short CSV file, frames of a short WAV file
MaxRows == 3
\* channels handed to the combiner at once
MaxChannels == 2
\* values in a channel handed to the combiner
MaxLen == 2

----------------------------------------------------------------------------
(* Class constants *)

EOL == <<13, 10>>
OVER_R == <<79, 86, 69, 82>>
OVER_W == OVER_R \o EOL
MAX_SRAM_SAMPLES == 4096
MAX_SRAM_VALUE == 511
AUTO_DETECT == -1
CMD_XXX == <<88, 88, 88>> \o EOL
RSP_XXX_SIZE == 1024

NoError == [type |-> "none"]
None == "None"
\* an optional value of any type: None is Nothing, the value v is Some(v)
Nothing == <<>>
Some(v) == <<v>>

----------------------------------------------------------------------------
(* Bytes helpers *)

\* bytes.startswith(prefix)
StartsWith(line, prefix) ==
    /\ Len(line) >= Len(prefix)
    /\ SubSeq(line, 1, Len(prefix)) = prefix

\* bytes.replace(old, new) for single bytes
Replace(line, old, new) ==
    [k \in 1..Len(line) |-> IF line[k] = old THEN new ELSE line[k]]

\* bytes.split(sep) for a single-byte separator: the pieces between the
\* separators, empty ones included, in order
Split(line, sep) ==
    LET seps == {k \in 1..Len(line) : line[k] = sep}
        \* the position of the j-th separator; 0 and Len(line) + 1 bound the line
        pos(j) == IF j = 0 THEN 0
                  ELSE IF j > Cardinality(seps) THEN Len(line) + 1
                  ELSE CHOOSE k \in seps : Cardinality({m \in seps : m < k}) = j - 1
    IN  [j \in 1..(Cardinality(seps) + 1) |->
            SubSeq(line, pos(j - 1) + 1, pos(j) - 1)]

\* str.replace('\n', '').replace('\r', '')
StripEol(line) == SelectSeq(line, LAMBDA b : b \notin {10, 13})

RECURSIVE Concat(_)
Concat(lines) ==
    IF lines = <<>> THEN <<>> ELSE Head(lines) \o Concat(Tail(lines))

----------------------------------------------------------------------------
(* _convertCommandsToListOfBytes *)

RECURSIVE appendPieces(_, _)
appendPieces(bytesList, tempList) ==
    IF tempList = <<>> THEN bytesList
    ELSE appendPieces(IF Len(Head(tempList)) > 0
                      THEN Append(bytesList, Head(tempList) \o EOL)
                      ELSE bytesList,
                      Tail(tempList))

RECURSIVE convertLoop(_, _)
convertLoop(lines, bytesList) ==
    IF lines = <<>> THEN bytesList
    ELSE convertLoop(Tail(lines),
                     appendPieces(bytesList, Split(Replace(Head(lines), 13, 10), 10)))

\* lines: a list of bytes or str values, or one such value that is not a list,
\* given here as the list of it (the code wraps it: lines = { lines })
convertCommandsToListOfBytes(lines) == convertLoop(lines, <<>>)

----------------------------------------------------------------------------
(* The session's operations, as functions of the mutable part of the       *)
(* object and its surroundings:                                            *)
(*   s.needsFinalOver, s.writeLog, s.wire, s.console, s.written, s.raised, *)
(*   s.ret (the value returned),                                           *)
(*   s.dataRead (the value the last read() returned),                      *)
(*   s.rsp (what the device will answer to the reads to come),             *)
(*   s.starved (a read found s.rsp empty)                                  *)
(***************************************************************************)

writeHandler(s, line) ==
    [s EXCEPT !.console  = IF printWriteLog
                           THEN Append(@, [msg |-> "line", text |-> StripEol(line)])
                           ELSE @,
              !.writeLog = IF generateWriteLog THEN @ \o line ELSE @,
              !.wire     = IF ser THEN Append(@, [op |-> "write", data |-> line]) ELSE @,
              !.written  = Append(@, line)]

read(s, max_bytes) ==
    IF ser
    THEN IF s.rsp = <<>>
         THEN [s EXCEPT !.starved = TRUE, !.dataRead = <<>>]
         ELSE [s EXCEPT !.rsp = Tail(@),
                        !.dataRead = Head(s.rsp),
                        !.wire = Append(@, [op |-> "read", max |-> max_bytes,
                                            data |-> Head(s.rsp)])]
    ELSE [s EXCEPT !.dataRead = <<>>]

\* mutant: the flag is cleared only once the acknowledgment has arrived
sendOver_ClearAfterAck(s) ==
    LET s2 == writeHandler(s, OVER_W)
        s3 == read(s2, Len(OVER_R))
    IN  IF s3.dataRead # OVER_R /\ ser
        THEN [s3 EXCEPT !.raised = [type |-> "TimeoutError", got |-> s3.dataRead]]
        ELSE [s3 EXCEPT !.needsFinalOver = FALSE]

\* mutant: an empty read (the timeout) is taken for the acknowledgment
sendOver_IgnoreTimeout(s) ==
    LET s1 == [s EXCEPT !.needsFinalOver = FALSE]
        s2 == writeHandler(s1, OVER_W)
        s3 == read(s2, Len(OVER_R))
    IN  IF s3.dataRead # OVER_R /\ s3.dataRead # <<>> /\ ser
        THEN [s3 EXCEPT !.raised = [type |-> "TimeoutError", got |-> s3.dataRead]]
        ELSE s3

\* mutant: the comparison does not look at the transport
sendOver_NoSerCheck(s) ==
    LET s1 == [s EXCEPT !.needsFinalOver = FALSE]
        s2 == writeHandler(s1, OVER_W)
        s3 == read(s2, Len(OVER_R))
    IN  IF s3.dataRead # OVER_R
        THEN [s3 EXCEPT !.raised = [type |-> "TimeoutError", got |-> s3.dataRead]]
        ELSE s3

\* mutant: the request is written and the acknowledgment is not waited for
sendOver_NoWait(s) ==
    LET s1 == [s EXCEPT !.needsFinalOver = FALSE]
    IN  writeHandler(s1, OVER_W)

sendOverWaitForOver(s) ==
    LET s1 == [s EXCEPT !.needsFinalOver = FALSE]
        s2 == writeHandler(s1, OVER_W)
        s3 == read(s2, Len(OVER_R))
    IN  IF s3.dataRead # OVER_R /\ ser
        THEN [s3 EXCEPT !.raised = [type |-> "TimeoutError", got |-> s3.dataRead]]
        ELSE s3

\* mutant: a data-load command does not set the flag
writeLine_NoFlag(s, line) ==
    IF line = OVER_W
    THEN sendOverWaitForOver(s)
    ELSE LET s2 == writeHandler(s, line)
         IN  IF line = CMD_XXX
             THEN LET s3 == read(s2, RSP_XXX_SIZE)
                  IN  [s3 EXCEPT !.console = Append(@, [msg |-> "response", text |-> s3.dataRead])]
             ELSE s2

\* mutant: every command that starts with OVER is taken for the request
writeLine_OverPrefix(s, line) ==
    IF StartsWith(line, OVER_R)
    THEN sendOverWaitForOver(s)
    ELSE LET s1 == IF StartsWith(line, <<90>>)
                   THEN [s EXCEPT !.needsFinalOver = TRUE]
                   ELSE s
             s2 == writeHandler(s1, line)
         IN  IF line = CMD_XXX
             THEN LET s3 == read(s2, RSP_XXX_SIZE)
                  IN  [s3 EXCEPT !.console = Append(@, [msg |-> "response", text |-> s3.dataRead])]
             ELSE s2

writeLine(s, line) ==
    IF line = OVER_W
    THEN sendOverWaitForOver(s)
    ELSE LET s1 == IF StartsWith(line, <<90>>)
                   THEN [s EXCEPT !.needsFinalOver = TRUE]
                   ELSE s
             s2 == writeHandler(s1, line)
         IN  IF line = CMD_XXX
             THEN LET s3 == read(s2, RSP_XXX_SIZE)
                  IN  [s3 EXCEPT !.console = Append(@, [msg |-> "response", text |-> s3.dataRead])]
             ELSE s2

\* mutant: the loop goes on after a failed acknowledgment
RECURSIVE writeLoop_GoOn(_, _)
writeLoop_GoOn(s, lines) ==
    IF lines = <<>> THEN s
    ELSE writeLoop_GoOn(writeLine(s, Head(lines)), Tail(lines))

RECURSIVE writeLoop(_, _)
writeLoop(s, lines) ==
    IF lines = <<>> \/ s.raised # NoError THEN s
    ELSE writeLoop(writeLine(s, Head(lines)), Tail(lines))

write(s, lines) == writeLoop(s, convertCommandsToListOfBytes(lines))

----------------------------------------------------------------------------
(* convertNumbersToZCommands *)

Min(a, b) == IF a < b THEN a ELSE b
Max(a, b) == IF a > b THEN a ELSE b

RECURSIVE Digits(_)
Digits(n) == IF n < 10 THEN <<48 + n>> ELSE Digits(n \div 10) \o <<48 + (n % 10)>>

RECURSIVE ZeroPad(_, _)
ZeroPad(ds, width) == IF Len(ds) >= width THEN ds ELSE ZeroPad(<<48>> \o ds, width)

\* f"{n:0<width>d}".encode('utf-8'): the sign, then the digits zero-padded so
\* that the whole is at least width long
FormatD(n, width) ==
    IF n < 0 THEN <<45>> \o ZeroPad(Digits(-n), width - 1)
    ELSE ZeroPad(Digits(n), width)

\* int(x) of a value that is an integer
int(x) == x

\* mutant: the value is written as it came, not restricted to [0, MAX_SRAM_VALUE]
zBody_NoClamp(valuesInput, st, i) ==
    LET z0 == IF i % 64 = 0 THEN <<90>> \o FormatD(i \div 64, 2) ELSE st.z_command
        value == int(valuesInput[i + 1])
        z1 == z0 \o FormatD(value, 3)
        closes == (i % 64 = 63 \/ i = Len(valuesInput) - 1)
    IN  [z_command |-> IF closes THEN z1 \o <<13, 10>> ELSE z1,
         z_commandsOutput |-> IF closes
                              THEN Append(st.z_commandsOutput, z1 \o <<13, 10>>)
                              ELSE st.z_commandsOutput,
         didClipNumbers |-> st.didClipNumbers]

\* mutant: a command is closed only when it holds 64 values
zBody_FullBlocksOnly(valuesInput, st, i) ==
    LET z0 == IF i % 64 = 0 THEN <<90>> \o FormatD(i \div 64, 2) ELSE st.z_command
        value == Max(0, Min(MAX_SRAM_VALUE, int(valuesInput[i + 1])))
        z1 == z0 \o FormatD(value, 3)
        closes == (i % 64 = 63)
    IN  [z_command |-> IF closes THEN z1 \o <<13, 10>> ELSE z1,
         z_commandsOutput |-> IF closes
                              THEN Append(st.z_commandsOutput, z1 \o <<13, 10>>)
                              ELSE st.z_commandsOutput,
         didClipNumbers |-> st.didClipNumbers \/ value # int(valuesInput[i + 1])]

\* one turn of the loop over valuesInput, for the 0-based index i
zBody(valuesInput, st, i) ==
    LET z0 == IF i % 64 = 0 THEN <<90>> \o FormatD(i \div 64, 2) ELSE st.z_command
        value == Max(0, Min(MAX_SRAM_VALUE, int(valuesInput[i + 1])))
        z1 == z0 \o FormatD(value, 3)
        closes == (i % 64 = 63 \/ i = Len(valuesInput) - 1)
    IN  [z_command |-> IF closes THEN z1 \o <<13, 10>> ELSE z1,
         z_commandsOutput |-> IF closes
                              THEN Append(st.z_commandsOutput, z1 \o <<13, 10>>)
                              ELSE st.z_commandsOutput,
         didClipNumbers |-> st.didClipNumbers \/ value # int(valuesInput[i + 1])]

\* for i in range(lo, hi): the turns in increasing i, each on the result of
\* the one before.  The range is halved, and the first half's result looked
\* at before the second half starts, only to keep the evaluation shallow.
RECURSIVE zLoop(_, _, _, _)
zLoop(valuesInput, st, lo, hi) ==
    IF lo >= hi THEN st
    ELSE IF hi = lo + 1 THEN zBody(valuesInput, st, lo)
    ELSE LET mid == (lo + hi) \div 2
             half == zLoop(valuesInput, st, lo, mid)
         IN  IF half.didClipNumbers \in BOOLEAN
             THEN zLoop(valuesInput, half, mid, hi)
             ELSE half

convertNumbersToZCommands(s, valuesInput) ==
    IF Len(valuesInput) > MAX_SRAM_SAMPLES /\ params.doesPrint
    THEN \* the warning adds the integer MAX_SRAM_SAMPLES to a str
         [s EXCEPT !.raised = [type |-> "TypeError"]]
    ELSE LET vals == IF Len(valuesInput) > MAX_SRAM_SAMPLES
                     THEN SubSeq(valuesInput, 1, MAX_SRAM_SAMPLES)
                     ELSE valuesInput
             st == zLoop(vals, [z_command |-> <<>>, z_commandsOutput |-> <<>>,
                                didClipNumbers |-> FALSE], 0, Len(vals))
             c1 == IF params.doesPrint /\ st.didClipNumbers
                   THEN Append(s.console, [msg |-> "WARNING: clipped"])
                   ELSE s.console
             c2 == IF params.doesPrint
                   THEN Append(c1, [msg |-> "Generated", n |-> Len(vals)])
                   ELSE c1
         IN  [s EXCEPT !.console = c2, !.ret = st.z_commandsOutput]

----------------------------------------------------------------------------
(* setLoadParameters *)

\* the keyword arguments, each optional
NoArgs ==
    [startingRowToRead |-> Nothing, maxRowsToWrite |-> Nothing,
     maxRowsToRead |-> Nothing, doScaleAuto |-> Nothing, scaleMultiplier |-> Nothing,
     columnRanges |-> Nothing, columnSelected |-> Nothing, columnWeights |-> Nothing,
     hasCsvHeader |-> Nothing, doesPrint |-> Nothing]

Given(old, new) == IF new # Nothing THEN new[1] ELSE old

\* mutant: a row limit that is not given goes back to the capacity
RowLimit_Reset(old, new) ==
    IF new = Nothing THEN MAX_SRAM_SAMPLES
    ELSE IF new[1] = AUTO_DETECT THEN MAX_SRAM_SAMPLES
    ELSE Min(new[1], MAX_SRAM_SAMPLES)

\* mutant: a limit given is stored as it is, beyond the capacity too
RowLimit_NoCap(old, new) ==
    IF new = Nothing THEN old
    ELSE IF new[1] = AUTO_DETECT THEN MAX_SRAM_SAMPLES
    ELSE new[1]

RowLimit(old, new) ==
    IF new = Nothing THEN old
    ELSE IF new[1] = AUTO_DETECT THEN MAX_SRAM_SAMPLES
    ELSE Min(new[1], MAX_SRAM_SAMPLES)

setLoadParameters(p, a) ==
    [columnRanges |-> Given(p.columnRanges, a.columnRanges),
     columnSelected |-> IF a.columnSelected # Nothing
                        THEN a.columnSelected ELSE p.columnSelected,
     columnWeights |-> Given(p.columnWeights, a.columnWeights),
     doScaleAuto |-> Given(p.doScaleAuto, a.doScaleAuto),
     scaleMultiplier |-> Given(p.scaleMultiplier, a.scaleMultiplier),
     hasCsvHeader |-> Given(p.hasCsvHeader, a.hasCsvHeader),
     doesPrint |-> Given(p.doesPrint, a.doesPrint),
     startingRowToRead |-> Given(p.startingRowToRead, a.startingRowToRead),
     maxRowsToRead |-> RowLimit(p.maxRowsToRead, a.maxRowsToRead),
     maxRowsToWrite |-> RowLimit(p.maxRowsToWrite, a.maxRowsToWrite)]

----------------------------------------------------------------------------
(* Inputs *)

\* "OVER"
ItemOver == <<79, 86, 69, 82>>
\* "Z00001"
ItemZ == <<90, 48, 48, 48, 48, 49>>
\* "OVERZ": neither the acknowledgment request nor a data-load command
ItemOverZ == <<79, 86, 69, 82, 90>>
\* "XXX"
ItemXxx == <<88, 88, 88>>
\* "Z01002\r\n\nOVERZ\n": two commands in one item
ItemTwo == <<90, 48, 49, 48, 48, 50, 13, 10, 10, 79, 86, 69, 82, 90, 10>>

Items == {ItemOver, ItemZ, ItemOverZ, ItemXxx, ItemTwo}

ItemLists(n) == UNION {[1..k -> Items] : k \in 0..n}

\* what a read may return: the acknowledgment, nothing (timeout), other bytes
\* "OVEN"
RspOther == <<79, 86, 69, 78>>
Responses == {OVER_R, <<>>, RspOther}

\* the lines of a list that make write() read from the transport
ReadLines(lines) ==
    Cardinality({k \in 1..Len(lines) : lines[k] \in {OVER_W, CMD_XXX}})

Oracles(n) == IF ser THEN UNION {[1..k -> Responses] : k \in 0..n} ELSE {<<>>}

----------------------------------------------------------------------------
(* The object and its calls *)

DefaultParams ==
    [columnRanges |-> <<>>, columnSelected |-> Nothing, columnWeights |-> <<>>,
     startingRowToRead |-> 0, maxRowsToRead |-> MAX_SRAM_SAMPLES,
     maxRowsToWrite |-> MAX_SRAM_SAMPLES, hasCsvHeader |-> AUTO_DETECT,
     doesPrint |-> TRUE, doScaleAuto |-> FALSE, scaleMultiplier |-> <<1, 1>>]

\* AWG_AD9106.__init__
Construct(portname, genLog, printLog) ==
    /\ ser = (portname # None)
    /\ printWriteLog = printLog
    /\ generateWriteLog = genLog
    /\ writeLog = <<>>
    /\ needsFinalOver = FALSE
    /\ params = DefaultParams
    /\ wire = <<>>
    /\ console = <<>>
    /\ written = <<>>
    /\ call = [op |-> "none"]
    /\ ret = None
    /\ raised = NoError
    /\ work = 0

Ports == {None, "COM3"}

Init ==
    /\ \E portname \in Ports, genLog \in BOOLEAN, printLog \in BOOLEAN :
          Construct(portname, genLog, printLog)
    /\ args = None
    /\ mpc = "api"
    /\ mi = 0
    /\ outFile = Nothing

\* the mutable part of the object, and the device's answers to come
Pack(rs) ==
    [needsFinalOver |-> needsFinalOver, writeLog |-> writeLog, wire |-> wire,
     console |-> console, written |-> written, raised |-> NoError, ret |-> None,
     dataRead |-> <<>>, rsp |-> rs, starved |-> FALSE]

\* the state before a call, kept for the properties
Before(op, lines) ==
    [op |-> op, lines |-> lines, pre |-> needsFinalOver, wire0 |-> Len(wire),
     log0 |-> Len(writeLog), written0 |-> Len(written)]

Unpack(r) ==
    /\ needsFinalOver' = r.needsFinalOver
    /\ writeLog' = r.writeLog
    /\ wire' = r.wire
    /\ console' = r.console
    /\ written' = r.written
    /\ raised' = r.raised
    /\ ret' = r.ret

\* every answer was read, and every read had an answer
Consumed(r) == r.rsp = <<>> /\ ~r.starved

\* device.write(lines)
CallWrite ==
    /\ mpc = "api"
    /\ work < MaxWork
    /\ \E lines \in ItemLists(MaxWork - work) :
          LET bl == convertCommandsToListOfBytes(lines)
          IN  \E rs \in Oracles(ReadLines(bl)) :
                 LET r == write(Pack(rs), lines)
                 IN  /\ Consumed(r)
                     /\ call' = Before("write", bl)
                     /\ work' = work + (IF lines = <<>> THEN 1 ELSE Len(lines))
                     /\ Unpack(r)
    /\ UNCHANGED <<ser, printWriteLog, generateWriteLog, params, args, mpc, mi, outFile>>

\* device.sendOverWaitForOver()
CallSendOver ==
    /\ mpc = "api"
    /\ work < MaxWork
    /\ \E rs \in Oracles(1) :
          LET r == sendOverWaitForOver(Pack(rs))
          IN  /\ Consumed(r)
              /\ call' = Before("sendOverWaitForOver", <<OVER_W>>)
              /\ work' = work + 1
              /\ Unpack(r)
    /\ UNCHANGED <<ser, printWriteLog, generateWriteLog, params, args, mpc, mi, outFile>>

Next == CallWrite \/ CallSendOver

Spec == Init /\ [][Next]_vars

----------------------------------------------------------------------------
(* The encoder on its own: one conversion on a session with no transport,  *)
(* after any number of setLoadParameters(doesPrint = ...)                  *)

\* the values of an input, by 0-based index: in range, and out of range on
\* both sides
Pattern(p, i) ==
    IF p = 0 THEN (i * 5) % (MAX_SRAM_VALUE + 1)
    ELSE ((i * 37) % 700) - 100

EncLengths ==
    (0..MaxShort) \cup ((MAX_SRAM_SAMPLES - 1)..(MAX_SRAM_SAMPLES + MaxExtra))

EncInputs == {[k \in 1..n |-> Pattern(p, k - 1)] : n \in EncLengths, p \in {0, 1}}

InitEnc ==
    /\ Construct(None, FALSE, FALSE)
    /\ args = None
    /\ mpc = "api"
    /\ mi = 0
    /\ outFile = Nothing

\* device.setLoadParameters(doesPrint = b)
CallSetDoesPrint ==
    /\ mpc = "api"
    /\ \E b \in BOOLEAN :
          params' = setLoadParameters(params, [NoArgs EXCEPT !.doesPrint = Some(b)])
    /\ UNCHANGED <<ser, printWriteLog, generateWriteLog, writeLog, needsFinalOver,
                   wire, console, written, call, ret, raised, work, args, mpc, mi,
                   outFile>>

\* device.convertNumbersToZCommands(valuesInput), once
CallConvert ==
    /\ mpc = "api"
    /\ call.op = "none"
    /\ \E valuesInput \in EncInputs :
          LET r == convertNumbersToZCommands(Pack(<<>>), valuesInput)
          IN  /\ call' = [op |-> "convertNumbersToZCommands", values |-> valuesInput,
                          doesPrint |-> params.doesPrint]
              /\ Unpack(r)
    /\ UNCHANGED <<ser, printWriteLog, generateWriteLog, params, work, args, mpc, mi,
                   outFile>>

NextEnc == CallSetDoesPrint \/ CallConvert

SpecEnc == InitEnc /\ [][NextEnc]_vars

----------------------------------------------------------------------------
(* _main: the run of one command line.  args holds what _parse_command_line *)
(* returned, with args.values the list the load (--csv or --wav) returns,   *)
(* if there is one; the file of an '@' command exists.                      *)

\* "@f"
ItemFile == <<64, 102>>
\* "Z00001\nOVER": a data-load command and its acknowledgment request
ItemBurst == <<90, 48, 48, 48, 48, 49, 10, 79, 86, 69, 82>>

\* file.read() of the file named in an '@' command
FileContent(filename) == ItemTwo

MainCmds == {<<>>, ItemZ, ItemOver, ItemFile, ItemBurst}
MainCmdLists == UNION {[1..k -> MainCmds] : k \in 0..MaxCmds}
MainValues == {Nothing, Some(<<256>>), Some([k \in 1..65 |-> Pattern(0, k - 1)])}

InitMain ==
    /\ \E port \in Ports, out \in BOOLEAN,
          pre \in MainCmdLists, post \in MainCmdLists, values \in MainValues :
          /\ args = [port |-> port, out_file |-> out, display_commands |-> FALSE,
                     no_messages |-> FALSE, pre_cmd |-> pre, post_cmd |-> post,
                     values |-> values]
          /\ Construct(port, out, FALSE)
    /\ mpc = "setup"
    /\ mi = 0
    /\ outFile = Nothing

\* the state of the session after a call of _main, and where _main goes on:
\* an exception is not caught, and ends the run
MainUnpack(r, to) ==
    /\ Unpack(r)
    /\ mpc' = IF r.raised # NoError THEN "aborted" ELSE to

Session == <<writeLog, needsFinalOver, wire, console, written, call, ret, raised>>

\* device.setLoadParameters( ... ) with the command line's defaults
MainSetup ==
    /\ mpc = "setup"
    /\ params' = setLoadParameters(params,
                    [NoArgs EXCEPT !.columnRanges = Some(<<>>),
                                   !.columnWeights = Some(<<>>),
                                   !.doScaleAuto = Some(FALSE),
                                   !.scaleMultiplier = Some(<<1, 1>>),
                                   !.hasCsvHeader = Some(AUTO_DETECT),
                                   !.doesPrint = Some(~args.no_messages)])
    /\ mpc' = "pre"
    /\ UNCHANGED <<ser, printWriteLog, generateWriteLog, Session, work, args, mi,
                   outFile>>

\* one turn of the loop of _execute_commands_list( device, commands ), which
\* is at mpc
ExecuteCommand(commands) ==
    /\ mi < Len(commands)
    /\ mi' = mi + 1
    /\ LET command == commands[mi + 1]
       IN  IF Len(command) = 0
           THEN UNCHANGED <<Session, mpc>>
           ELSE LET data == IF command[1] # 64 THEN command
                            ELSE FileContent(SubSeq(command, 2, Len(command)))
                    bl == convertCommandsToListOfBytes(<<data>>)
                IN  \E rs \in Oracles(ReadLines(bl)) :
                       LET r == write(Pack(rs), <<data>>)
                       IN  /\ Consumed(r)
                           /\ call' = Before("write", bl)
                           /\ MainUnpack(r, mpc)
    /\ UNCHANGED <<ser, printWriteLog, generateWriteLog, params, work, args, outFile>>

\* mutant: the acknowledgment owed is not asked for
FinalOver_Skip(to) ==
    /\ mpc' = to
    /\ mi' = 0
    /\ UNCHANGED <<Session, ser, printWriteLog, generateWriteLog, params, work, args,
                   outFile>>

\* if device.needsFinalOver(): device.sendOverWaitForOver()
FinalOver(to) ==
    /\ IF needsFinalOver
       THEN \E rs \in Oracles(1) :
               LET r == sendOverWaitForOver(Pack(rs))
               IN  /\ Consumed(r)
                   /\ call' = Before("sendOverWaitForOver", <<OVER_W>>)
                   /\ MainUnpack(r, to)
       ELSE /\ mpc' = to
            /\ UNCHANGED Session
    /\ mi' = 0
    /\ UNCHANGED <<ser, printWriteLog, generateWriteLog, params, work, args, outFile>>

MainPreCmd == mpc = "pre" /\ ExecuteCommand(args.pre_cmd)

MainPreOver == mpc = "pre" /\ mi = Len(args.pre_cmd) /\ FinalOver("wave")

\* z_commands = device.convertNumbersToZCommands( values )
\* device.write( z_commands )
MainWave ==
    /\ mpc = "wave"
    /\ IF args.values = Nothing
       THEN /\ mpc' = "post"
            /\ UNCHANGED Session
       ELSE LET c == convertNumbersToZCommands(Pack(<<>>), args.values[1])
            IN  IF c.raised # NoError
                THEN /\ call' = [op |-> "convertNumbersToZCommands",
                                 values |-> args.values[1],
                                 doesPrint |-> params.doesPrint]
                     /\ MainUnpack(c, "waveOver")
                ELSE LET r == write([c EXCEPT !.ret = None], c.ret)
                     IN  /\ call' = Before("write", convertCommandsToListOfBytes(c.ret))
                         /\ MainUnpack(r, "waveOver")
    /\ UNCHANGED <<ser, printWriteLog, generateWriteLog, params, work, args, mi,
                   outFile>>

MainWaveOver == mpc = "waveOver" /\ FinalOver("post")

MainPostCmd == mpc = "post" /\ ExecuteCommand(args.post_cmd)

MainPostOver == mpc = "post" /\ mi = Len(args.post_cmd) /\ FinalOver("save")

\* file.write( device.getWriteLog() )
MainSave ==
    /\ mpc = "save"
    /\ outFile' = IF args.out_file THEN Some(writeLog) ELSE outFile
    /\ mpc' = "done"
    /\ UNCHANGED <<ser, printWriteLog, generateWriteLog, params, Session, work, args,
                   mi>>

NextMain ==
    \/ MainSetup
    \/ MainPreCmd
    \/ MainPreOver
    \/ MainWave
    \/ MainWaveOver
    \/ MainPostCmd
    \/ MainPostOver
    \/ MainSave

SpecMain == InitMain /\ [][NextMain]_vars

----------------------------------------------------------------------------
(* Properties of the session *)

IsZ(line) == StartsWith(line, <<90>>)
IsOther(line) == ~IsZ(line) /\ line # OVER_W

HasZ(lines) == \E k \in 1..Len(lines) : IsZ(lines[k])
HasOver(lines) == \E k \in 1..Len(lines) : lines[k] = OVER_W

\* the data of the writes among the transport events w, in order
RECURSIVE WritesOf(_)
WritesOf(w) ==
    IF w = <<>> THEN <<>>
    ELSE IF Head(w).op = "write" THEN <<Head(w).data>> \o WritesOf(Tail(w))
         ELSE WritesOf(Tail(w))

Called == call.op \in {"write", "sendOverWaitForOver"}

\* what the last call added
NewWire == SubSeq(wire, call.wire0 + 1, Len(wire))
NewLog == SubSeq(writeLog, call.log0 + 1, Len(writeLog))
NewWritten == SubSeq(written, call.written0 + 1, Len(written))

\* the last call was the acknowledgment request alone, made while AwaitingAck
\* on a connected transport
AckRequested == Called /\ call.lines = <<OVER_W>> /\ ser
AckAnswer == wire[Len(wire)].data

\* C1 as stated: when the acknowledgment request is made while AwaitingAck and
\* the transport returns anything but OVER, the call raises the timeout error
\* and the session is still AwaitingAck.
C1_Original ==
    (AckRequested /\ call.pre /\ AckAnswer # OVER_R)
        => (raised.type = "TimeoutError" /\ needsFinalOver)

\* C1 amended: when the acknowledgment request is made while AwaitingAck and
\* the transport returns anything but OVER, the call raises the timeout error
\* carrying the bytes received, and the session is Idle afterwards: the flag is
\* cleared when the request is issued, whatever the answer.
C1_Amended ==
    (AckRequested /\ call.pre /\ AckAnswer # OVER_R)
        => (raised = [type |-> "TimeoutError", got |-> AckAnswer] /\ ~needsFinalOver)

C1_Witness ==
    /\ AckRequested /\ call.pre /\ AckAnswer # OVER_R
    /\ raised.type = "TimeoutError"

\* C2: a write() of data-load commands and no OVER leaves the session
\* AwaitingAck, from Idle and from AwaitingAck alike; the acknowledgment
\* request answered by OVER then leaves it Idle.
C2_Burst ==
    /\ (call.op = "write" /\ HasZ(call.lines) /\ ~HasOver(call.lines))
          => (needsFinalOver /\ raised = NoError)
    /\ (AckRequested /\ AckAnswer = OVER_R)
          => (~needsFinalOver /\ raised = NoError)

C2_Witness ==
    /\ AckRequested /\ call.pre /\ AckAnswer = OVER_R /\ ~needsFinalOver
    /\ Len(written) = 3 /\ IsZ(written[1]) /\ IsZ(written[2])

\* C3: needsFinalOver() is True exactly when a Z command has been written and
\* no OVER command has been written after the most recent one.
C3_FlagMeaning ==
    needsFinalOver <=>
        \E i \in 1..Len(written) :
            /\ IsZ(written[i])
            /\ \A j \in (i + 1)..Len(written) : written[j] # OVER_W

C3_Witness ==
    /\ raised.type = "TimeoutError" /\ call.pre /\ ~needsFinalOver
    /\ HasZ(written)

\* C5: with no transport no call raises or touches a device, the write log
\* (when enabled) receives every command of the call in order, and the
\* acknowledgment request leaves the session Idle.
C5_DryRun ==
    (~ser /\ Called) =>
        /\ raised = NoError
        /\ wire = <<>>
        /\ NewWritten = call.lines
        /\ NewLog = IF generateWriteLog THEN Concat(call.lines) ELSE <<>>
        /\ (HasOver(call.lines) /\ call.lines[Len(call.lines)] = OVER_W)
              => ~needsFinalOver

C5_Witness ==
    /\ ~ser /\ generateWriteLog /\ call.op = "sendOverWaitForOver" /\ call.pre
    /\ HasZ(written) /\ writeLog = Concat(written) /\ ~needsFinalOver

\* C6: when an acknowledgment inside write() times out, the commands up to and
\* including that OVER request were written once each, the request last and
\* followed by the one read that failed, and no later command of the call
\* reached the transport or the write log; the error reaches the caller.
C6_NoRetry ==
    (call.op = "write" /\ raised # NoError) =>
        \E k \in 1..Len(call.lines) :
            /\ call.lines[k] = OVER_W
            /\ raised = [type |-> "TimeoutError", got |-> AckAnswer]
            /\ AckAnswer # OVER_R
            /\ NewWritten = SubSeq(call.lines, 1, k)
            /\ WritesOf(NewWire) = SubSeq(call.lines, 1, k)
            /\ wire[Len(wire)].op = "read"
            /\ wire[Len(wire) - 1] = [op |-> "write", data |-> OVER_W]
            /\ NewLog = IF generateWriteLog
                        THEN Concat(SubSeq(call.lines, 1, k)) ELSE <<>>

C6_Witness ==
    /\ call.op = "write" /\ raised # NoError /\ generateWriteLog
    /\ Len(NewWritten) < Len(call.lines)

\* C7: the commands of a write() reach the transport one at a time in their
\* input order, and every OVER request on the transport is directly followed
\* by the 4-byte acknowledgment read.
C7_HalfDuplex ==
    (ser /\ call.op = "write") =>
        /\ LET ws == WritesOf(NewWire)
           IN  /\ Len(ws) <= Len(call.lines)
               /\ ws = SubSeq(call.lines, 1, Len(ws))
               /\ raised = NoError => Len(ws) = Len(call.lines)
        /\ \A i \in 1..Len(wire) :
              wire[i] = [op |-> "write", data |-> OVER_W]
                 => /\ i < Len(wire)
                    /\ wire[i + 1].op = "read"
                    /\ wire[i + 1].max = Len(OVER_R)

C7_Witness ==
    /\ ser /\ call.op = "write" /\ raised = NoError
    /\ Len(call.lines) = 3 /\ call.lines[2] = OVER_W /\ IsZ(call.lines[3])

\* C8: a write() of commands that are neither data-load commands nor the
\* acknowledgment request leaves needsFinalOver() as it was.
C8_OtherCommands ==
    (call.op = "write" /\ \A k \in 1..Len(call.lines) : IsOther(call.lines[k]))
        => (needsFinalOver = call.pre /\ raised = NoError)

C8_Witness ==
    /\ call.op = "write" /\ call.pre /\ needsFinalOver
    /\ Len(call.lines) = 2
    /\ \A k \in 1..Len(call.lines) : IsOther(call.lines[k])
    /\ StartsWith(call.lines[1], OVER_R)

----------------------------------------------------------------------------
(* Floating-point values.  A float is modelled by the rational it stands   *)
(* for, <<n, d>> in lowest terms with d > 0, and the arithmetic on floats   *)
(* by the exact arithmetic on rationals: rounding error, overflow to       *)
(* infinity and NaN are outside the model.                                 *)

Abs(n) == IF n < 0 THEN -n ELSE n

RECURSIVE GCD(_, _)
GCD(a, b) == IF b = 0 THEN a ELSE GCD(b, a % b)

\* the float n / d, for d # 0
Q(n, d) ==
    LET g == GCD(Abs(n), Abs(d))
        sgn == IF d < 0 THEN -1 ELSE 1
    IN  <<(sgn * n) \div g, (sgn * d) \div g>>

\* float(i) of an integer i
float(i) == <<i, 1>>

fadd(a, b) == Q((a[1] * b[2]) + (b[1] * a[2]), a[2] * b[2])
fsub(a, b) == Q((a[1] * b[2]) - (b[1] * a[2]), a[2] * b[2])
fmul(a, b) == Q(a[1] * b[1], a[2] * b[2])
\* a / b for b # 0
fdiv(a, b) == Q(a[1] * b[2], a[2] * b[1])
flt(a, b) == (a[1] * b[2]) < (b[1] * a[2])
fle(a, b) == (a[1] * b[2]) <= (b[1] * a[2])
fabs(a) == <<Abs(a[1]), a[2]>>
\* min(a, b) and max(a, b): the first argument unless the second is
\* strictly smaller (larger)
fmin(a, b) == IF flt(b, a) THEN b ELSE a
fmax(a, b) == IF flt(a, b) THEN b ELSE a

\* mutant: the fraction is dropped, not rounded
round_Floor(x) == <<x[1] \div x[2], 1>>

\* round(x, 0): the nearest integer, a tie going to the even one
round(x) ==
    LET f == x[1] \div x[2]
        twice == 2 * (x[1] % x[2])
    IN  <<IF twice < x[2] THEN f
          ELSE IF twice > x[2] THEN f + 1
          ELSE IF f % 2 = 0 THEN f ELSE f + 1, 1>>

\* int(x) of a float: the fraction is dropped, towards zero
trunc(x) == IF x[1] >= 0 THEN x[1] \div x[2] ELSE -((-x[1]) \div x[2])

----------------------------------------------------------------------------
(* setLoadParameters on a session that has a burst open: a session with no *)
(* transport that keeps the write log, one write of a Z command, and calls *)
(* of setLoadParameters with any of the arguments given                    *)

\* an argument and a value given for it; hasCsvHeader is given as the
\* integer the bool equals (True == 1)
GivenArgs ==
    {<<"startingRowToRead", 1>>,
     <<"maxRowsToWrite", 3>>, <<"maxRowsToWrite", MAX_SRAM_SAMPLES + 1>>,
     <<"maxRowsToRead", 2>>, <<"maxRowsToRead", AUTO_DETECT>>,
     <<"doScaleAuto", TRUE>>,
     <<"scaleMultiplier", <<2, 1>>>>,
     <<"columnRanges", <<Some(<<<<1, 1>>, <<-1, 1>>>>)>>>>,
     <<"columnSelected", 0>>,
     <<"columnWeights", <<<<1, 1>>, <<-3, 1>>>>>>, <<"columnWeights", <<>>>>,
     <<"hasCsvHeader", 1>>,
     <<"doesPrint", FALSE>>}

\* the calls that give at most n arguments
RECURSIVE ArgSets(_)
ArgSets(n) ==
    IF n = 0 THEN {NoArgs}
    ELSE LET fewer == ArgSets(n - 1)
         IN  fewer \cup UNION {{[a EXCEPT ![g[1]] = Some(g[2])] :
                                   a \in {b \in fewer : b[g[1]] = Nothing}} :
                                      g \in GivenArgs}

NumGiven(a) == Cardinality({f \in DOMAIN a : a[f] # Nothing})

InitParams ==
    /\ Construct(None, TRUE, FALSE)
    /\ args = None
    /\ mpc = "api"
    /\ mi = 0
    /\ outFile = Nothing

\* device.write(b'Z00001'), as the first call
CallWriteBurst ==
    /\ mpc = "api"
    /\ call.op = "none"
    /\ LET r == write(Pack(<<>>), <<ItemZ>>)
       IN  /\ call' = Before("write", convertCommandsToListOfBytes(<<ItemZ>>))
           /\ Unpack(r)
    /\ UNCHANGED <<ser, printWriteLog, generateWriteLog, params, work, args, mpc, mi,
                   outFile>>

\* device.setLoadParameters(...)
CallSetLoadParameters ==
    /\ mpc = "api"
    /\ work < MaxGiven
    /\ \E a \in ArgSets(MaxGiven - work) :
          /\ params' = setLoadParameters(params, a)
          /\ call' = [op |-> "setLoadParameters", args |-> a, params |-> params,
                      pre |-> needsFinalOver, log |-> writeLog]
          /\ work' = work + Max(1, NumGiven(a))
    /\ UNCHANGED <<ser, printWriteLog, generateWriteLog, writeLog, needsFinalOver,
                   wire, console, written, ret, raised, args, mpc, mi, outFile>>

NextParams == CallWriteBurst \/ CallSetLoadParameters

SpecParams == InitParams /\ [][NextParams]_vars

----------------------------------------------------------------------------
(* The quantizer *)

_normalizedValuesToRegisterValues(normValues) ==
    [k \in 1..Len(normValues) |->
        LET registerValue ==
                int(trunc(round(fdiv(fmul(fadd(normValues[k], float(1)),
                                          float(MAX_SRAM_VALUE)), float(2)))))
        IN  Max(0, Min(MAX_SRAM_VALUE, registerValue))]

\* the normalized values handed to the quantizer: halves up to beyond
\* [-1, 1] on both sides, and the 511ths around -1, 0 and 1, where the
\* scaled value falls on and next to a tie
QuantGrid ==
    {Q(n, 2) : n \in (-(MaxOff + 2))..(MaxOff + 2)}
        \cup {Q(c + n, MAX_SRAM_VALUE) :
                 c \in {-MAX_SRAM_VALUE, 0, MAX_SRAM_VALUE}, n \in (-MaxOff)..MaxOff}

QuantInputs == {<<>>} \cup {<<a, b>> : a \in QuantGrid, b \in QuantGrid}

\* AWG_AD9106._normalizedValuesToRegisterValues(normValues), once
CallQuantize ==
    /\ mpc = "api"
    /\ call.op = "none"
    /\ \E normValues \in QuantInputs :
          /\ call' = [op |-> "_normalizedValuesToRegisterValues",
                      normValues |-> normValues]
          /\ ret' = _normalizedValuesToRegisterValues(normValues)
    /\ UNCHANGED <<ser, printWriteLog, generateWriteLog, writeLog, needsFinalOver,
                   params, wire, console, written, raised, work, args, mpc, mi,
                   outFile>>

NextQuant == CallQuantize

SpecQuant == InitEnc /\ [][NextQuant]_vars

----------------------------------------------------------------------------
(* The combiner.  A list of floats is a sequence; a channel range is Nothing *)
(* (None) or Some(<<low, high>>) (a list of two floats).                    *)

IndexError == [type |-> "IndexError"]

_copyListAndForceLength(listInput, length, fillValue) ==
    LET listOutput == IF Len(listInput) < length
                      THEN listInput \o [k \in 1..(length - Len(listInput)) |-> fillValue]
                      ELSE listInput
    IN  SubSeq(listOutput, 1, length)

DEFAULT_RANGE == <<float(-1), float(1)>>

\* The value returned, and what the list passed as channelRange holds after
\* the call: the swap of a range given high first is made in the list itself.
_normalizeValue(value, channelRange) ==
    LET passed == IF channelRange = Nothing THEN DEFAULT_RANGE ELSE channelRange[1]
        swapped == IF flt(passed[2], passed[1]) THEN <<passed[2], passed[1]>> ELSE passed
        channelWidth == fsub(swapped[2], swapped[1])
        v1 == fsub(value, swapped[1])
        v2 == fdiv(fmul(v1, float(2)), channelWidth)
        v3 == fadd(v2, DEFAULT_RANGE[1])
    IN  [value |-> IF channelWidth = float(0) THEN float(0)
                   ELSE fmax(DEFAULT_RANGE[1], fmin(DEFAULT_RANGE[2], v3)),
         channelRange |-> IF channelRange = Nothing THEN Nothing ELSE Some(swapped)]

\* for j in range(lo, len(channels)), within the turn i of the outer loop;
\* st: channelRanges, weightedAverage, finalOutput, raised
RECURSIVE avgInner(_, _, _, _, _)
avgInner(channels, columnWeights, st, i, j) ==
    IF j >= Len(channels) THEN st
    ELSE IF i >= Len(channels[j + 1])
    THEN \* channels[j][i]: the test j >= len(channels) before it is never true
         [st EXCEPT !.raised = IndexError]
    ELSE LET weight == columnWeights[j + 1]
             n == _normalizeValue(channels[j + 1][i + 1], st.channelRanges[j + 1])
         IN  avgInner(channels, columnWeights,
                      [st EXCEPT !.channelRanges[j + 1] = n.channelRange,
                                 !.weightedAverage = fadd(@, fmul(weight, n.value))],
                      i, j + 1)

\* one turn of the loop over i
avgBody(channels, columnWeights, weightTotal, st, i) ==
    LET st1 == avgInner(channels, columnWeights,
                        [st EXCEPT !.weightedAverage = float(0)], i, 0)
        weightedAverage == IF flt(float(0), weightTotal)
                           THEN fdiv(st1.weightedAverage, weightTotal)
                           ELSE float(0)
    IN  IF st1.raised # NoError THEN st1
        ELSE [st1 EXCEPT !.finalOutput = Append(@, weightedAverage)]

\* for i in range(lo, hi): the turns in increasing i until one raises; the
\* range is halved only to keep the evaluation shallow
RECURSIVE avgLoop(_, _, _, _, _, _)
avgLoop(channels, columnWeights, weightTotal, st, lo, hi) ==
    IF lo >= hi THEN st
    ELSE IF hi = lo + 1 THEN avgBody(channels, columnWeights, weightTotal, st, lo)
    ELSE LET mid == (lo + hi) \div 2
             half == avgLoop(channels, columnWeights, weightTotal, st, lo, mid)
         IN  IF half.raised = NoError
             THEN avgLoop(channels, columnWeights, weightTotal, half, mid, hi)
             ELSE half

RECURSIVE fsum(_)
fsum(xs) == IF xs = <<>> THEN float(0) ELSE fadd(fsum(Tail(xs)), Head(xs))

\* mutant: a weight list that is set is used, the selected index only when
\* there is none
buildWeights_ListFirst(p, n) ==
    IF Len(p.columnWeights) # 0
    THEN [raised |-> NoError,
          columnWeights |-> _copyListAndForceLength(p.columnWeights, n, float(0))]
    ELSE IF p.columnSelected = Nothing
    THEN [raised |-> NoError,
          columnWeights |-> _copyListAndForceLength(<<>>, n, float(1))]
    ELSE IF p.columnSelected[1] >= n \/ p.columnSelected[1] < -n
    THEN [raised |-> IndexError, columnWeights |-> <<>>]
    ELSE [raised |-> NoError,
          columnWeights |-> [k \in 1..n |->
                                IF k = ((p.columnSelected[1] + n) % n) + 1
                                THEN float(1) ELSE float(0)]]

\* "Build or make a copy of columnWeights of the correct length", for n
\* channels: the list, or the exception raised
buildWeights(p, n) ==
    IF p.columnSelected # Nothing
    THEN IF p.columnSelected[1] >= n
         THEN [raised |-> IndexError, columnWeights |-> <<>>]
         ELSE IF p.columnSelected[1] < -n
         THEN \* columnWeights[ self._columnSelected ] = 1.0 on a list of n
              \* items; an index in -n..-1 counts from the end of the list
              [raised |-> IndexError, columnWeights |-> <<>>]
         ELSE LET selected == IF p.columnSelected[1] >= 0 THEN p.columnSelected[1]
                              ELSE n + p.columnSelected[1]
                  oneHot == [k \in 1..n |-> IF k = selected + 1 THEN float(1)
                                            ELSE float(0)]
              IN  [raised |-> NoError,
                   columnWeights |-> _copyListAndForceLength(oneHot, n, float(0))]
    ELSE LET w0 == IF Len(p.columnWeights) = 0
                   THEN _copyListAndForceLength(p.columnWeights, n, float(1))
                   ELSE p.columnWeights
         IN  [raised |-> NoError,
              columnWeights |-> _copyListAndForceLength(w0, n, float(0))]

\* p: the load parameters.  Gives ret (the list returned), raised, and
\* channelRanges: what the first len(channels) range lists passed hold after
\* the call
_weightedAverageChannels(p, channels, channelRanges) ==
    LET n == Len(channels)
        maxChannelLength == Max(0, IF n = 0 THEN 0
                                   ELSE CHOOSE m \in {Len(channels[j]) : j \in 1..n} :
                                           \A j \in 1..n : Len(channels[j]) <= m)
        built == buildWeights(p, n)
    IN  IF built.raised # NoError
        THEN [ret |-> <<>>, raised |-> built.raised, channelRanges |-> channelRanges]
        ELSE LET columnWeights == built.columnWeights
                 weightTotal == fsum([k \in 1..n |-> fabs(columnWeights[k])])
                 ranges == _copyListAndForceLength(channelRanges, n, Nothing)
                 st == avgLoop(channels, columnWeights, weightTotal,
                               [channelRanges |-> ranges, weightedAverage |-> float(0),
                                finalOutput |-> <<>>, raised |-> NoError],
                               0, maxChannelLength)
             IN  [ret |-> IF st.raised = NoError THEN st.finalOutput ELSE <<>>,
                  raised |-> st.raised, channelRanges |-> st.channelRanges]

\* the channels handed to the combiner: channel j (from 0) of pattern p holds
\* at index i (from 0) a half in [-3/2, 3/2], inside and outside the default
\* range
Sample(p, j, i) == Q((((3 * i) + (5 * j) + (2 * p)) % 7) - 3, 2)

ChannelSets ==
    UNION {{[j \in 1..n |-> [i \in 1..lens[j] |-> Sample(p, j - 1, i - 1)]] :
               lens \in [1..n -> 0..MaxLen], p \in {0, 1}} : n \in 0..MaxChannels}

\* the ranges handed over: none, fewer than the channels, ranges given low
\* first, high first, and of no width
RangeLists ==
    {<<>>,
     <<Some(<<float(0), float(2)>>)>>,
     <<Some(<<float(1), float(-1)>>), Nothing, Some(<<float(-2), float(2)>>)>>,
     <<Nothing, Some(<<float(1), float(1)>>)>>}

\* the weight lists set: shorter and longer than the channels, of sum 0 and
\* of absolute sum 0
WeightLists ==
    {<<>>, <<float(1)>>, <<float(1), float(-3)>>, <<float(0), float(0)>>,
     <<float(1), float(-1), Q(1, 2), float(2)>>}

\* device.setLoadParameters(columnSelected = k), or (columnWeights = w),
\* before the combiner is used
CallSetColumns ==
    /\ mpc = "api"
    /\ call.op = "none"
    /\ \/ \E k \in (-(MaxChannels + 1))..MaxChannels :
             params' = setLoadParameters(params,
                                         [NoArgs EXCEPT !.columnSelected = Some(k)])
       \/ \E w \in WeightLists :
             params' = setLoadParameters(params,
                                         [NoArgs EXCEPT !.columnWeights = Some(w)])
    /\ UNCHANGED <<ser, printWriteLog, generateWriteLog, writeLog, needsFinalOver,
                   wire, console, written, call, ret, raised, work, args, mpc, mi,
                   outFile>>

\* device._weightedAverageChannels(channels, channelRanges), once
CallCombine ==
    /\ mpc = "api"
    /\ call.op = "none"
    /\ \E channels \in ChannelSets, channelRanges \in RangeLists :
          LET r == _weightedAverageChannels(params, channels, channelRanges)
          IN  /\ call' = [op |-> "_weightedAverageChannels", channels |-> channels,
                          channelRanges |-> channelRanges,
                          rangesAfter |-> r.channelRanges]
              /\ ret' = r.ret
              /\ raised' = r.raised
    /\ UNCHANGED <<ser, printWriteLog, generateWriteLog, writeLog, needsFinalOver,
                   params, wire, console, written, work, args, mpc, mi, outFile>>

NextCombine == CallSetColumns \/ CallCombine

SpecCombine == InitEnc /\ [][NextCombine]_vars

----------------------------------------------------------------------------
(* The scaling stage *)

ValueError == [type |-> "ValueError"]

\* min and max of xs[lo..hi], lo <= hi: of the two halves, to keep the
\* evaluation shallow
RECURSIVE fminIn(_, _, _)
fminIn(xs, lo, hi) ==
    IF lo = hi THEN xs[lo]
    ELSE fmin(fminIn(xs, lo, (lo + hi) \div 2), fminIn(xs, ((lo + hi) \div 2) + 1, hi))

RECURSIVE fmaxIn(_, _, _)
fmaxIn(xs, lo, hi) ==
    IF lo = hi THEN xs[lo]
    ELSE fmax(fmaxIn(xs, lo, (lo + hi) \div 2), fmaxIn(xs, ((lo + hi) \div 2) + 1, hi))

\* min(xs) and max(xs) of a non-empty list
fminOf(xs) == fminIn(xs, 1, Len(xs))
fmaxOf(xs) == fmaxIn(xs, 1, Len(xs))

\* p: the load parameters.  Gives ret (the list returned) and raised.
_applyScaling(p, normValues) ==
    IF normValues = <<>>
    THEN \* min() of an empty list
         [ret |-> <<>>, raised |-> ValueError]
    ELSE LET minValue == fminOf(normValues)
             maxValue == fmaxOf(normValues)
             autoMultiplier == IF minValue # float(0) /\ maxValue # float(0)
                               THEN fdiv(float(1), fmax(fabs(minValue), fabs(maxValue)))
                               ELSE float(1)
             auto == IF p.doScaleAuto
                     THEN [k \in 1..Len(normValues) |-> fmul(autoMultiplier, normValues[k])]
                     ELSE normValues
         IN  [ret |-> [k \in 1..Len(auto) |-> fmul(p.scaleMultiplier, auto[k])],
              raised |-> NoError]

\* the values handed to the scaling stage: quarters in [-1, 1]
ScaleValues == {Q(n, 4) : n \in {-4, -2, 0, 1, 2, 4}}

RECURSIVE ListsOver(_, _)
ListsOver(S, n) ==
    IF n = 0 THEN {<<>>}
    ELSE LET shorter == ListsOver(S, n - 1)
         IN  shorter \cup {Append(xs, x) : xs \in {l \in shorter : Len(l) = n - 1}, x \in S}

ScaleInputs == ListsOver(ScaleValues, MaxLen)

\* device.setLoadParameters(doScaleAuto = b), or (scaleMultiplier = m), before
\* the scaling stage is used
CallSetScaling ==
    /\ mpc = "api"
    /\ call.op = "none"
    /\ \/ \E b \in BOOLEAN :
             params' = setLoadParameters(params, [NoArgs EXCEPT !.doScaleAuto = Some(b)])
       \/ \E m \in {Q(1, 2), float(1), float(2), float(-1)} :
             params' = setLoadParameters(params,
                                         [NoArgs EXCEPT !.scaleMultiplier = Some(m)])
    /\ UNCHANGED <<ser, printWriteLog, generateWriteLog, writeLog, needsFinalOver,
                   wire, console, written, call, ret, raised, work, args, mpc, mi,
                   outFile>>

\* device._applyScaling(normValues), once
CallApplyScaling ==
    /\ mpc = "api"
    /\ call.op = "none"
    /\ \E normValues \in ScaleInputs :
          LET r == _applyScaling(params, normValues)
          IN  /\ call' = [op |-> "_applyScaling", normValues |-> normValues]
              /\ ret' = r.ret
              /\ raised' = r.raised
    /\ UNCHANGED <<ser, printWriteLog, generateWriteLog, writeLog, needsFinalOver,
                   params, wire, console, written, work, args, mpc, mi, outFile>>

NextScale == CallSetScaling \/ CallApplyScaling

SpecScale == InitEnc /\ [][NextScale]_vars

----------------------------------------------------------------------------
(* The loads.  A load gives: ret (the list returned), raised, console,     *)
(* columnRanges (what self._columnRanges holds after the load) and         *)
(* channels (Some of the channels handed to the combiner, Nothing when the *)
(* load raised before).                                                    *)
(* Assumed of the sources: the file opens, the dialect of a CSV file is    *)
(* found, the starting row is not negative.                                *)

_padRowsToWrite(p, valuesToPad) ==
    IF Len(valuesToPad) < p.maxRowsToWrite
    THEN LET padValue == IF Len(valuesToPad) = 0 THEN float(0)
                         ELSE valuesToPad[Len(valuesToPad)]
         IN  valuesToPad \o [k \in 1..(p.maxRowsToWrite - Len(valuesToPad)) |-> padValue]
    ELSE valuesToPad

\* the three stages after the combiner: pad, scale, quantize.  avg: what the
\* combiner gave
finishCombined(p, con, channels, avg) ==
    IF avg.raised # NoError
    THEN [ret |-> <<>>, raised |-> avg.raised, console |-> con,
          channelRanges |-> avg.channelRanges, channels |-> Some(channels)]
    ELSE LET scaled == _applyScaling(p, _padRowsToWrite(p, avg.ret))
         IN  IF scaled.raised # NoError
             THEN [ret |-> <<>>, raised |-> scaled.raised, console |-> con,
                   channelRanges |-> avg.channelRanges, channels |-> Some(channels)]
             ELSE [ret |-> _normalizedValuesToRegisterValues(scaled.ret),
                   raised |-> NoError, console |-> con,
                   channelRanges |-> avg.channelRanges, channels |-> Some(channels)]

\* the four stages that end both loads: combine, pad, scale, quantize.
\* channelRanges: what the range lists handed to the combiner hold after it.
\* The combiner is evaluated once and its result handed on.
finish(p, con, channels, channelRanges) ==
    CHOOSE r \in {finishCombined(p, con, channels, avg) :
                     avg \in {_weightedAverageChannels(p, channels, channelRanges)}} : TRUE

\* a cell of a CSV row is the text of a finite number, of a number that is
\* not finite, or other text
_safeConvertToFloat(string) ==
    IF string.kind = "float" THEN string.value ELSE float(0)

\* one turn of the loop that reads the rows, for the row number k (from 1)
\* of the rows after the header; st: rowCount, columns, stop (the break)
csvBody(p, rows, maxColumns, st, k) ==
    IF st.rowCount < p.startingRowToRead
    THEN [st EXCEPT !.rowCount = @ + 1]
    ELSE IF st.rowCount + 1 > p.startingRowToRead + p.maxRowsToRead
    THEN [st EXCEPT !.rowCount = @ + 1, !.stop = TRUE]
    ELSE [st EXCEPT !.rowCount = @ + 1,
                    !.columns = [i \in 1..maxColumns |->
                                    Append(st.columns[i],
                                           IF i > Len(rows[k]) THEN float(0)
                                           ELSE _safeConvertToFloat(rows[k][i]))]]

\* the turns for the rows lo..hi - 1 in order, until the break; the range is
\* halved only to keep the evaluation shallow
RECURSIVE csvLoop(_, _, _, _, _, _)
csvLoop(p, rows, maxColumns, st, lo, hi) ==
    IF lo >= hi THEN st
    ELSE IF hi = lo + 1 THEN csvBody(p, rows, maxColumns, st, lo)
    ELSE LET mid == (lo + hi) \div 2
             half == csvLoop(p, rows, maxColumns, st, lo, mid)
         IN  IF half.stop THEN half
             ELSE csvLoop(p, rows, maxColumns, half, mid, hi)

\* what the load leaves of the stored range lists and what it returns; done:
\* what the four last stages gave.  The combiner is handed self._columnRanges
\* itself: what it does to the range lists in it is done to the stored ones
csvResult(p, done) ==
    [ret |-> done.ret, raised |-> done.raised, console |-> done.console,
     channels |-> done.channels,
     columnRanges |-> [j \in 1..Len(p.columnRanges) |->
                          IF j <= Len(done.channelRanges)
                          THEN done.channelRanges[j] ELSE p.columnRanges[j]]]

\* file: rows (what csv.reader gives) and sniffed (what Sniffer.has_header
\* answers); the dialect is found.  The columns read are evaluated once and
\* handed on.
loadNumbersFromCSV(p, con, file) ==
    LET auto == p.hasCsvHeader = AUTO_DETECT
        hasHeader == IF auto THEN file.sniffed ELSE p.hasCsvHeader > 0
        con1 == IF auto /\ p.doesPrint
                THEN Append(con, [msg |-> "Auto-detecting CSV header row",
                                  detected |-> hasHeader])
                ELSE con
        rows == IF hasHeader /\ file.rows # <<>> THEN Tail(file.rows) ELSE file.rows
        maxColumns == IF rows = <<>> THEN 0
                      ELSE Max(0, CHOOSE m \in {Len(rows[k]) : k \in 1..Len(rows)} :
                                     \A k \in 1..Len(rows) : Len(rows[k]) <= m)
    IN  CHOOSE r \in
            {csvResult(p, finish(p, con1, columns, p.columnRanges)) :
                columns \in {csvLoop(p, rows, maxColumns,
                                     [rowCount |-> 0,
                                      columns |-> [i \in 1..maxColumns |-> <<>>],
                                      stop |-> FALSE], 1, Len(rows) + 1).columns}} : TRUE

\* one turn of the loop over the bytes of 8-bit frames, for the byte number
\* k (from 1); st: j, rowCount, channels, stop
wav8Body(p, frameBytes, numChannels, st, k) ==
    IF st.rowCount < p.startingRowToRead
    THEN [st EXCEPT !.rowCount = @ + 1]
    ELSE IF st.rowCount + 1 > p.startingRowToRead + p.maxRowsToRead
    THEN [st EXCEPT !.rowCount = @ + 1, !.stop = TRUE]
    ELSE LET DIVISOR == fdiv(float(MAX_SRAM_VALUE), float(4))
         IN  [st EXCEPT !.rowCount = @ + 1,
                        !.channels[st.j + 1] =
                            Append(@, fsub(fdiv(float(int(frameBytes[k])), DIVISOR),
                                           float(1))),
                        !.j = (st.j + 1) % numChannels]

RECURSIVE wav8Loop(_, _, _, _, _, _)
wav8Loop(p, frameBytes, numChannels, st, lo, hi) ==
    IF lo >= hi THEN st
    ELSE IF hi = lo + 1 THEN wav8Body(p, frameBytes, numChannels, st, lo)
    ELSE LET mid == (lo + hi) \div 2
             half == wav8Loop(p, frameBytes, numChannels, st, lo, mid)
         IN  IF half.stop THEN half
             ELSE wav8Loop(p, frameBytes, numChannels, half, mid, hi)

RECURSIVE Pow2(_)
Pow2(n) == IF n = 0 THEN 1 ELSE 2 * Pow2(n - 1)

\* one turn of the loop over the bytes of wider frames, for the index i
\* (from 0); st: currentValue, rowCount, channels, stop
multiByteBody(p, frameBytes, sampleBytesWidth, numChannels, st, i) ==
    LET channel == (i \div sampleBytesWidth) % numChannels
        byteIndex == i % sampleBytesWidth
        isFirstByte == byteIndex = 0
        isLastByte == byteIndex = sampleBytesWidth - 1
        closes == isLastByte /\ channel = numChannels - 1
        b == frameBytes[i + 1]
        zeroOffset == Pow2((sampleBytesWidth * 8) - 1)
    IN  IF st.rowCount < p.startingRowToRead
        THEN [st EXCEPT !.rowCount = IF closes THEN @ + 1 ELSE @]
        ELSE LET rowCount == IF closes THEN st.rowCount + 1 ELSE st.rowCount
             IN  IF rowCount > p.startingRowToRead + p.maxRowsToRead
                 THEN [st EXCEPT !.rowCount = rowCount, !.stop = TRUE]
                 ELSE IF isFirstByte
                 THEN [st EXCEPT !.rowCount = rowCount, !.currentValue = b % 256]
                 ELSE IF isLastByte
                 THEN LET joined == st.currentValue + ((b % 128) * Pow2(8 * byteIndex))
                          currentValue == IF b >= 128 THEN joined - zeroOffset
                                          ELSE joined
                      IN  [st EXCEPT !.rowCount = rowCount,
                                     !.currentValue = currentValue,
                                     !.channels[channel + 1] =
                                         Append(@, fdiv(float(currentValue),
                                                        float(zeroOffset)))]
                 ELSE [st EXCEPT !.rowCount = rowCount,
                                 !.currentValue = @ + (b * Pow2(8 * byteIndex))]

RECURSIVE multiByteLoop(_, _, _, _, _, _, _)
multiByteLoop(p, frameBytes, sampleBytesWidth, numChannels, st, lo, hi) ==
    IF lo >= hi THEN st
    ELSE IF hi = lo + 1
    THEN multiByteBody(p, frameBytes, sampleBytesWidth, numChannels, st, lo)
    ELSE LET mid == (lo + hi) \div 2
             half == multiByteLoop(p, frameBytes, sampleBytesWidth, numChannels, st,
                                   lo, mid)
         IN  IF half.stop THEN half
             ELSE multiByteLoop(p, frameBytes, sampleBytesWidth, numChannels, half,
                                mid, hi)

_loadNumbersFromMultiByteWAV(p, channels, frameBytes, sampleBytesWidth, numChannels) ==
    multiByteLoop(p, frameBytes, sampleBytesWidth, numChannels,
                  [currentValue |-> 0, rowCount |-> 0, channels |-> channels,
                   stop |-> FALSE], 0, Len(frameBytes)).channels

TypeError == [type |-> "TypeError"]

\* wav.readframes(n): the bytes of the first n frames, of all when there are
\* fewer
readframes(file, n) ==
    SubSeq(file.data, 1,
           Min(Len(file.data), Max(0, n) * file.numChannels * file.sampleBytesWidth))

\* what the load returns; done: what the four last stages gave.  The range
\* lists handed to the combiner are a new list, the stored ones are not touched
wavResult(p, done) ==
    [ret |-> done.ret, raised |-> done.raised, console |-> done.console,
     channels |-> done.channels, columnRanges |-> p.columnRanges]

\* file: comptype, numChannels, sampleBytesWidth and data (the bytes of the
\* frames).  The channels read are evaluated once and handed on.
loadNumbersFromWAV(p, con, file) ==
    IF file.comptype # "NONE"
    THEN [ret |-> <<>>, raised |-> TypeError, console |-> con,
          columnRanges |-> p.columnRanges, channels |-> Nothing]
    ELSE LET con1 == IF p.doesPrint
                     THEN Append(con, [msg |-> "Opened WAV file",
                                       numChannels |-> file.numChannels,
                                       sampleBytesWidth |-> file.sampleBytesWidth])
                     ELSE con
             numChannels == file.numChannels
             empty == [j \in 1..numChannels |-> <<>>]
         IN  CHOOSE r \in
                 {wavResult(p, finish(p, con1, channels,
                                      _copyListAndForceLength(
                                          <<>>, Len(channels),
                                          Some(<<float(-1), float(1)>>)))) :
                     channels \in
                         {IF file.sampleBytesWidth = 1
                          THEN wav8Loop(p, frameBytes, numChannels,
                                        [j |-> 0, rowCount |-> 0, channels |-> empty,
                                         stop |-> FALSE], 1, Len(frameBytes) + 1).channels
                          ELSE _loadNumbersFromMultiByteWAV(p, empty, frameBytes,
                                                            file.sampleBytesWidth,
                                                            numChannels) :
                              frameBytes \in
                                  {readframes(file, MAX_SRAM_SAMPLES
                                                        + p.startingRowToRead)}}} : TRUE

----------------------------------------------------------------------------
(* One load on a session with no transport, after at most one              *)
(* setLoadParameters (the way _main configures a load)                     *)

Number(q) == [kind |-> "float", value |-> q]
Text == [kind |-> "text"]
NonFinite == [kind |-> "nonfinite"]

\* row k (from 1) of a CSV file: two numbers a row, or rows of 0 to 2 cells
\* with cells that are not finite numbers, after a header row
CsvRow(ragged, k) ==
    IF ~ragged THEN <<Number(Sample(0, 0, k)), Number(Sample(0, 1, k))>>
    ELSE IF k % 3 = 1 THEN <<Number(Sample(1, 0, k))>>
    ELSE IF k % 3 = 2 THEN <<NonFinite, Text>>
    ELSE <<>>

CsvFiles ==
    {[rows |-> [k \in 1..n |-> CsvRow(FALSE, k)], sniffed |-> FALSE] : n \in 0..MaxRows}
    \cup {[rows |-> <<<<Text, Text>>>> \o [k \in 1..n |-> CsvRow(TRUE, k)],
           sniffed |-> TRUE] : n \in 1..MaxRows}
    \cup {[rows |-> [k \in 1..(MAX_SRAM_SAMPLES + MaxExtra) |->
                        <<Number(Q((k % 9) - 4, 4))>>],
           sniffed |-> FALSE]}

\* byte k (from 1) of the frames of a WAV file
WavByte(k) == ((53 * k) + 7) % 256

WavFiles ==
    {[comptype |-> "NONE", numChannels |-> c, sampleBytesWidth |-> w,
      data |-> [k \in 1..(n * c * w) |-> WavByte(k)]] :
        c \in 1..MaxChannels, w \in {1, 2}, n \in {0, MaxRows - 1, MaxRows}}
    \cup {[comptype |-> "NONE", numChannels |-> 1, sampleBytesWidth |-> 1,
           data |-> [k \in 1..(MAX_SRAM_SAMPLES + MaxExtra) |-> WavByte(k)]],
          [comptype |-> "ULAW", numChannels |-> 1, sampleBytesWidth |-> 1,
           data |-> <<WavByte(1)>>]}

\* the row window and the length to write
Window(first, rows, out) ==
    [NoArgs EXCEPT !.startingRowToRead = Some(first), !.maxRowsToRead = Some(rows),
                   !.maxRowsToWrite = Some(out)]

\* the arguments of the setLoadParameters before a load: the windows over the
\* short sources; on one window a selected channel, weights, ranges, scaling
\* and the header flag; and row limits at and beyond the capacity
LoadArgs ==
    {Window(first, rows, out) :
        first \in 0..(MaxRows - 1), rows \in 0..(MaxRows - 1), out \in {0, MaxRows - 1}}
    \cup {[Window(0, MaxRows - 1, 0) EXCEPT !.columnSelected = Some(k)] : k \in {0, -1, 2}}
    \cup {[Window(0, MaxRows - 1, 0) EXCEPT !.columnWeights = Some(<<float(1), float(-3)>>)],
          [Window(0, MaxRows - 1, 0) EXCEPT
              !.columnRanges = Some(<<Some(<<float(1), float(-1)>>)>>)],
          [Window(0, MaxRows - 1, 0) EXCEPT
              !.columnRanges = Some(<<Some(<<float(0), float(2)>>), Nothing,
                                      Some(<<float(2), float(-2)>>)>>)],
          [Window(0, MaxRows - 1, MaxRows) EXCEPT !.doScaleAuto = Some(TRUE)],
          [Window(0, MaxRows - 1, MaxRows) EXCEPT !.scaleMultiplier = Some(float(2))],
          [Window(0, MaxRows - 1, MaxRows) EXCEPT !.doScaleAuto = Some(TRUE),
                                                  !.scaleMultiplier = Some(Q(1, 2))],
          [Window(0, MaxRows - 1, 0) EXCEPT !.hasCsvHeader = Some(0)],
          [Window(0, MaxRows - 1, 0) EXCEPT !.hasCsvHeader = Some(1)],
          [Window(1, 1, 0) EXCEPT !.doesPrint = Some(FALSE)],
          [NoArgs EXCEPT !.maxRowsToRead = Some(AUTO_DETECT),
                         !.maxRowsToWrite = Some(0)],
          [NoArgs EXCEPT !.maxRowsToRead = Some(MAX_SRAM_SAMPLES + MaxExtra),
                         !.maxRowsToWrite = Some(MAX_SRAM_SAMPLES + MaxExtra)]}

\* device.setLoadParameters(...), as the first call
CallConfigure ==
    /\ mpc = "api"
    /\ work = 0
    /\ call.op = "none"
    /\ \E a \in LoadArgs : params' = setLoadParameters(params, a)
    /\ work' = work + 1
    /\ UNCHANGED <<ser, printWriteLog, generateWriteLog, writeLog, needsFinalOver,
                   wire, console, written, call, ret, raised, args, mpc, mi, outFile>>

\* device.loadNumbersFromCSV(filename), once
CallLoadCSV ==
    /\ mpc = "api"
    /\ call.op = "none"
    /\ \E file \in CsvFiles :
          \E r \in {loadNumbersFromCSV(params, console, file)} :
              /\ call' = [op |-> "loadNumbersFromCSV", file |-> file,
                          params |-> params, channels |-> r.channels]
              /\ ret' = r.ret
              /\ raised' = r.raised
              /\ console' = r.console
              /\ params' = [params EXCEPT !.columnRanges = r.columnRanges]
    /\ UNCHANGED <<ser, printWriteLog, generateWriteLog, writeLog, needsFinalOver,
                   wire, written, work, args, mpc, mi, outFile>>

\* device.loadNumbersFromWAV(filename), once
CallLoadWAV ==
    /\ mpc = "api"
    /\ call.op = "none"
    /\ \E file \in WavFiles :
          \E r \in {loadNumbersFromWAV(params, console, file)} :
              /\ call' = [op |-> "loadNumbersFromWAV", file |-> file,
                          params |-> params, channels |-> r.channels]
              /\ ret' = r.ret
              /\ raised' = r.raised
              /\ console' = r.console
              /\ params' = [params EXCEPT !.columnRanges = r.columnRanges]
    /\ UNCHANGED <<ser, printWriteLog, generateWriteLog, writeLog, needsFinalOver,
                   wire, written, work, args, mpc, mi, outFile>>

NextLoad == CallConfigure \/ CallLoadCSV \/ CallLoadWAV

SpecLoad == InitEnc /\ [][NextLoad]_vars

----------------------------------------------------------------------------
(* Properties of the encoder *)

Converted == call.op = "convertNumbersToZCommands"

Clamped(values) ==
    [k \in 1..Len(values) |-> Max(0, Min(MAX_SRAM_VALUE, values[k]))]

\* a command without its 'Z' tag, its 2-digit block index and its CRLF, read
\* as 3-digit decimals
DecodeCommand(cmd) ==
    LET payload == SubSeq(cmd, 4, Len(cmd) - 2)
    IN  [k \in 1..(Len(payload) \div 3) |->
            100 * (payload[3 * k - 2] - 48) + 10 * (payload[3 * k - 1] - 48)
                + (payload[3 * k] - 48)]

RECURSIVE Decode(_)
Decode(cmds) ==
    IF cmds = <<>> THEN <<>> ELSE DecodeCommand(Head(cmds)) \o Decode(Tail(cmds))

WellFramed(cmd) ==
    /\ Len(cmd) >= 5
    /\ cmd[1] = 90
    /\ SubSeq(cmd, Len(cmd) - 1, Len(cmd)) = <<13, 10>>
    /\ (Len(cmd) - 5) % 3 = 0
    /\ \A k \in 2..(Len(cmd) - 2) : cmd[k] \in 48..57

\* C9 as stated: given more than 4096 values the encoder does not fail, and
\* returns the 64 framed commands of the first 4096 values, whatever the
\* print-diagnostics flag.
C9_Truncates ==
    (Converted /\ Len(call.values) > MAX_SRAM_SAMPLES) =>
        /\ raised = NoError
        /\ Len(ret) = 64
        /\ Decode(ret) = Clamped(SubSeq(call.values, 1, MAX_SRAM_SAMPLES))

\* C10: for N <= 4096 integer values, decoding the commands returned gives the
\* values, each clamped to [0, 511], in the same order and number.
C10_RoundTrip ==
    (Converted /\ Len(call.values) <= MAX_SRAM_SAMPLES) =>
        /\ raised = NoError
        /\ \A k \in 1..Len(ret) : WellFramed(ret[k])
        /\ Decode(ret) = Clamped(call.values)

C10_Witness ==
    /\ Converted /\ Len(call.values) = MAX_SRAM_SAMPLES
    /\ \E k \in 1..Len(call.values) : call.values[k] > MAX_SRAM_VALUE
    /\ \E k \in 1..Len(call.values) : call.values[k] < 0
    /\ Len(ret) = 64

\* the number of values command number k (from 1) of n commands holds, when
\* the commands hold N values in all, 64 to a command
ValuesIn(k, n, N) == IF k < n THEN 64 ELSE N - 64 * (n - 1)

\* C11: for N <= 4096 values the encoder returns ceil(N / 64) commands (none
\* for N = 0); command k, counted from 0, is 'Z', then k as two decimal
\* digits, then 64 values of three decimal digits each, then CRLF; only the
\* last command may hold fewer than 64 values, and it holds at least one.
C11_Framing ==
    (Converted /\ Len(call.values) <= MAX_SRAM_SAMPLES) =>
        LET N == Len(call.values)
            n == Len(ret)
        IN  /\ raised = NoError
            /\ n = (N + 63) \div 64
            /\ \A k \in 1..n :
                  LET cmd == ret[k]
                      held == ValuesIn(k, n, N)
                  IN  /\ held \in 1..64
                      /\ Len(cmd) = 3 + 3 * held + 2
                      /\ cmd[1] = 90
                      /\ cmd[2] = 48 + ((k - 1) \div 10)
                      /\ cmd[3] = 48 + ((k - 1) % 10)
                      /\ \A j \in 4..(Len(cmd) - 2) : cmd[j] \in 48..57
                      /\ cmd[Len(cmd) - 1] = 13
                      /\ cmd[Len(cmd)] = 10

C11_Witness ==
    /\ Converted /\ Len(call.values) = MAX_SRAM_SAMPLES - 1
    /\ Len(ret) = 64
    /\ Len(ret[64]) = 3 + 3 * 63 + 2
    /\ SubSeq(ret[64], 1, 3) = <<90, 54, 51>>

\* the empty input gives no command
C11_WitnessEmpty == Converted /\ call.values = <<>> /\ ret = <<>>

----------------------------------------------------------------------------
(* Properties of the run *)

\* every Z command written is followed by an OVER request
AllClosed ==
    \A i \in 1..Len(written) :
        IsZ(written[i]) => \E j \in (i + 1)..Len(written) : written[j] = OVER_W

\* the OVER requests written
Overs == {j \in 1..Len(written) : written[j] = OVER_W}

\* C4: where a phase of the run is over (the waveform about to be sent, the
\* post-commands about to run, the run about to end or ended) no
\* acknowledgment is owed: every Z command written so far has an OVER request
\* after it and the session is Idle.
PhaseOver ==
    \/ mpc = "wave"
    \/ mpc = "post" /\ mi = 0
    \/ mpc \in {"save", "done"}

C4_PhasesClosed ==
    /\ PhaseOver => (~needsFinalOver /\ AllClosed /\ raised = NoError)
    /\ mpc = "aborted" => raised # NoError

C4_Witness ==
    /\ mpc = "done" /\ ser /\ raised = NoError
    /\ args.values # Nothing
    /\ Cardinality(Overs) = 3
    /\ IsZ(written[1]) /\ IsZ(written[Len(written) - 1])

----------------------------------------------------------------------------
(* Properties of the quantizer *)

Quantized == call.op = "_normalizedValuesToRegisterValues"

----------------------------------------------------------------------------
(* Properties of the combiner *)

Combined == call.op = "_weightedAverageChannels"

\* normalize(v, range): the value _normalizeValue returns
Normalized(v, channelRange) == _normalizeValue(v, channelRange).value

\* the longest channel's length
Longest(channels) ==
    IF channels = <<>> THEN 0
    ELSE CHOOSE m \in {Len(channels[j]) : j \in 1..Len(channels)} :
            \A j \in 1..Len(channels) : Len(channels[j]) <= m

\* C13 as stated: with a selected-channel index k configured, the combiner
\* fails with an index error for every k outside [0, channelCount), negative
\* k included, and for k in range returns exactly the normalized values of
\* channel k.
C13_SelectedChannel ==
    (Combined /\ params.columnSelected # Nothing) =>
        LET k == params.columnSelected[1]
            n == Len(call.channels)
            ranges == _copyListAndForceLength(call.channelRanges, n, Nothing)
        IN  IF k \in 0..(n - 1)
            THEN /\ raised = NoError
                 /\ ret = [i \in 1..Len(call.channels[k + 1]) |->
                              Normalized(call.channels[k + 1][i], ranges[k + 1])]
            ELSE raised = IndexError

\* the weights the combiner is to use when no channel is selected: the
\* configured list, padded with 0.0 or truncated to the channel count, or all
\* 1.0 when the list is empty
Weights(n) ==
    IF params.columnWeights = <<>> THEN [j \in 1..n |-> float(1)]
    ELSE _copyListAndForceLength(params.columnWeights, n, float(0))

\* C17 as stated: the combiner returns one output per index up to the longest
\* channel's length, the sum over the channels of weight * normalized value
\* divided by the sum of the absolute weights (0.0 when that sum is 0); a
\* channel that has no value at the index contributes 0.0 and causes no
\* failure.
C17_WeightedAverage ==
    (Combined /\ params.columnSelected = Nothing) =>
        LET n == Len(call.channels)
            ranges == _copyListAndForceLength(call.channelRanges, n, Nothing)
            total == fsum([j \in 1..n |-> fabs(Weights(n)[j])])
            term(i, j) == IF i > Len(call.channels[j]) THEN float(0)
                          ELSE fmul(Weights(n)[j],
                                    Normalized(call.channels[j][i], ranges[j]))
        IN  /\ raised = NoError
            /\ Len(ret) = Longest(call.channels)
            /\ \A i \in 1..Len(ret) :
                  ret[i] = IF total = float(0) THEN float(0)
                           ELSE fdiv(fsum([j \in 1..n |-> term(i, j)]), total)

----------------------------------------------------------------------------
(* Properties of the scaling stage *)

Scaled == call.op = "_applyScaling"

\* max(|min(values)|, |max(values)|): the largest magnitude in the values
Peak(values) ==
    CHOOSE m \in {fabs(values[k]) : k \in 1..Len(values)} :
        \A k \in 1..Len(values) : fle(fabs(values[k]), m)

\* C18 as stated: with auto-scale on, every value is multiplied by 1 / peak
\* whenever peak # 0, also when the minimum or the maximum is exactly 0, so
\* that the largest magnitude becomes 1.0; then every value is multiplied by
\* the multiplier.
C18_AutoScale ==
    (Scaled /\ params.doScaleAuto /\ call.normValues # <<>>) =>
        /\ raised = NoError
        /\ Len(ret) = Len(call.normValues)
        /\ \A k \in 1..Len(ret) :
              ret[k] = fmul(params.scaleMultiplier,
                            IF Peak(call.normValues) # float(0)
                            THEN fdiv(call.normValues[k], Peak(call.normValues))
                            ELSE call.normValues[k])

----------------------------------------------------------------------------
(* Properties of setLoadParameters *)

\* C14 as stated: in the load parameters of a session, the selected-channel
\* index and a non-empty weight list are never both set.
C14_Exclusive ==
    ~(params.columnSelected # Nothing /\ params.columnWeights # <<>>)

\* C14 amended: the two can both be set, and then the combiner uses the
\* selected index alone: it returns, or raises, what it does for the same
\* index with no weight list set.
C14_SelectedWins ==
    (Combined /\ params.columnSelected # Nothing) =>
        LET alone == _weightedAverageChannels([params EXCEPT !.columnWeights = <<>>],
                                              call.channels, call.channelRanges)
        IN  ret = alone.ret /\ raised = alone.raised

C14_Witness ==
    /\ Combined
    /\ params.columnSelected = Some(1)
    /\ params.columnWeights = <<float(1), float(-3)>>
    /\ Len(call.channels) = 2 /\ Len(call.channels[1]) = 2
    /\ call.channelRanges = <<>>
    /\ raised = NoError
    /\ ret = [i \in 1..2 |-> Normalized(call.channels[2][i], Nothing)]
    /\ ret # [i \in 1..2 |-> Normalized(call.channels[1][i], Nothing)]

\* C15: a call of setLoadParameters leaves every parameter it is not given
\* at the value the parameter had before the call, and leaves the ack-pending
\* flag and the write log as they were.
C15_OnlyGiven ==
    call.op = "setLoadParameters" =>
        /\ \A f \in DOMAIN call.args :
              call.args[f] = Nothing => params[f] = call.params[f]
        /\ needsFinalOver = call.pre
        /\ writeLog = call.log

C15_Witness ==
    /\ call.op = "setLoadParameters"
    /\ needsFinalOver /\ writeLog # <<>>
    /\ call.args = [NoArgs EXCEPT !.doesPrint = Some(FALSE)]
    /\ call.params.maxRowsToRead = 2 /\ call.params.doScaleAuto
    /\ params = [call.params EXCEPT !.doesPrint = FALSE]

----------------------------------------------------------------------------
(* Properties of the loads                                                 *)

Loaded == call.op \in {"loadNumbersFromCSV", "loadNumbersFromWAV"}

\* the indices (from 0) of the window [s, s + m) that exist among n rows or
\* frames, as the list s, s + 1, ...
WindowIndices(p, n) ==
    [i \in 1..Max(0, Min(n, p.startingRowToRead + p.maxRowsToRead)
                        - p.startingRowToRead) |-> p.startingRowToRead + (i - 1)]

\* the rows of a CSV file after its header row
DataRows(p, file) ==
    IF (IF p.hasCsvHeader = AUTO_DETECT THEN file.sniffed ELSE p.hasCsvHeader > 0)
       /\ file.rows # <<>>
    THEN Tail(file.rows) ELSE file.rows

\* the cell of column j (from 1) of a row as a number, 0.0 where the row has
\* no such cell
Cell(row, j) == IF j > Len(row) THEN float(0) ELSE _safeConvertToFloat(row[j])

\* the number of whole frames of a WAV file
Frames(file) == Len(file.data) \div (file.numChannels * file.sampleBytesWidth)

\* the sample of channel j (from 1) in frame f (from 0) of a WAV file of
\* 1-byte (unsigned) or 2-byte (signed, low byte first) samples
FrameSample(file, f, j) ==
    LET at == ((f * file.numChannels) + (j - 1)) * file.sampleBytesWidth
        unsigned == file.data[at + 1] + (256 * file.data[at + 2])
    IN  IF file.sampleBytesWidth = 1
        THEN fsub(fdiv(float(file.data[at + 1]), Q(MAX_SRAM_VALUE, 4)), float(1))
        ELSE fdiv(float(IF unsigned >= 32768 THEN unsigned - 65536 ELSE unsigned),
                  float(32768))

\* the channels of the rows or frames of the window, each sample in its own
\* channel
WindowChannels(op, p, file) ==
    IF op = "loadNumbersFromCSV"
    THEN LET rows == DataRows(p, file)
             at == WindowIndices(p, Len(rows))
         IN  [j \in 1..Longest(rows) |->
                 [i \in 1..Len(at) |-> Cell(rows[at[i] + 1], j)]]
    ELSE LET at == WindowIndices(p, Frames(file))
         IN  [j \in 1..file.numChannels |->
                 [i \in 1..Len(at) |-> FrameSample(file, at[i], j)]]

\* C16 as stated: for a start offset s and a read limit m, the channels a
\* load extracts from a CSV or a WAV source hold exactly the samples of the
\* rows or whole frames with index in [s, s + m) that exist, each in its own
\* channel, for 1-byte and wider samples and any channel count; so all
\* channels of one load have one length.
C16_RowWindow ==
    (Loaded /\ call.channels # Nothing) =>
        /\ call.channels[1] = WindowChannels(call.op, call.params, call.file)
        /\ \A j \in 1..Len(call.channels[1]) :
               Len(call.channels[1][j]) = Longest(call.channels[1])

\* C19 as stated: a load only reads the load parameters; every parameter,
\* each configured range pair as stored included, has after the load the
\* value it had before it, also when a range was given with low > high.
C19_ReadOnly == Loaded => params = call.params

C20_WitnessPadded ==
    /\ Loaded
    /\ raised = NoError
    /\ Longest(call.channels[1]) \in 1..(Len(ret) - 1)

====
